---- MODULE Spec2Model ----
(***************************************************************************)
(* Model of github.com/haleyrc/weather (src/weather.go): the wire-to-record *)
(* mapping of GetForecast / GetCurrentWeather, the Daily reduction and the  *)
(* four reducers of Forecast.                                               *)
(*                                                                          *)
(* Numbers: a float64 is modelled as an exact rational [num, den] with      *)
(* den > 0, plus the three IEEE specials +Inf = 1/0, -Inf = -1/0 and        *)
(* NaN = 0/0.  Rounding is not modelled.                                    *)
(* Time: a time.Time is [day, sod, loc]: the UTC day number since           *)
(* 1970-01-01, the second of that UTC day, and the Location.  Locations     *)
(* are fixed-offset zones.                                                  *)
(* Strings: a day key is the sequence of its decimal digits.                *)
(***************************************************************************)
EXTENDS Integers, Sequences, FiniteSets

VARIABLES pc, f, i, days, keys, loc, dailyForecast, calls, stats,
          resp, weathers, cur, err

vars == <<pc, f, i, days, keys, loc, dailyForecast, calls, stats,
          resp, weathers, cur, err>>

(* ------------------------------ bounds --------------------------------- *)

\* Longest Forecast a caller passes and longest list a response carries.
MaxLen == 3

(* ------------------------------ float64 -------------------------------- *)

Abs(n) == IF n < 0 THEN -n ELSE n

RECURSIVE Gcd(_, _)
Gcd(a, b) == IF b = 0 THEN a ELSE Gcd(b, a % b)

Sign(n) == IF n > 0 THEN 1 ELSE IF n < 0 THEN -1 ELSE 0

\* The float64 value n/d (d >= 0), in lowest terms; n/0 is +Inf, -Inf or NaN.
Rat(n, d) ==
    IF d = 0 THEN [num |-> Sign(n), den |-> 0]
    ELSE LET g == Gcd(Abs(n), d) IN [num |-> n \div g, den |-> d \div g]

Float(n) == [num |-> n, den |-> 1]
PosInf == [num |-> 1, den |-> 0]
NegInf == [num |-> -1, den |-> 0]
NaN == [num |-> 0, den |-> 0]

IsNaN(a) == a.den = 0 /\ a.num = 0
IsFinite(a) == a.den > 0

\* a < b on float64: false when either side is NaN.
FLess(a, b) ==
    IF IsNaN(a) \/ IsNaN(b) THEN FALSE
    ELSE IF a.den = 0 /\ b.den = 0 THEN a.num < b.num
    ELSE IF a.den = 0 THEN a.num < 0
    ELSE IF b.den = 0 THEN b.num > 0
    ELSE a.num * b.den < b.num * a.den

\* a + b on float64.
FAdd(a, b) ==
    IF IsNaN(a) \/ IsNaN(b) THEN NaN
    ELSE IF a.den = 0 /\ b.den = 0 THEN (IF a.num = b.num THEN a ELSE NaN)
    ELSE IF a.den = 0 THEN a
    ELSE IF b.den = 0 THEN b
    ELSE Rat(a.num * b.den + b.num * a.den, a.den * b.den)

\* a / float64(n) for a count n >= 0.
FDivInt(a, n) ==
    IF IsNaN(a) THEN NaN
    ELSE IF a.den = 0 THEN a
    ELSE Rat(a.num, a.den * n)

(* ------------------------------ time.Time ------------------------------ *)

Locations == {"UTC", "EST", "JST"}

\* Seconds east of UTC of a fixed-offset Location.
Offset(l) == CASE l = "UTC" -> 0
               [] l = "EST" -> -18000
               [] l = "JST" -> 32400

\* time.Time{}: January 1, year 1, 00:00:00 UTC.
ZeroTime == [day |-> -719162, sod |-> 0, loc |-> "UTC"]

\* Day number (days since 1970-01-01) of the calendar day t falls on in its
\* own Location, and the second of that local day.
LocalDay(t) == t.day + ((t.sod + Offset(t.loc)) \div 86400)
LocalSecond(t) == (t.sod + Offset(t.loc)) % 86400

\* Proleptic Gregorian calendar: day number -> <<year, month, day>>.
CivilFromDays(z0) ==
    LET z == z0 + 719468
        era == z \div 146097
        doe == z - era * 146097
        yoe == (doe - doe \div 1460 + doe \div 36524 - doe \div 146096) \div 365
        doy == doe - (365 * yoe + yoe \div 4 - yoe \div 100)
        mp == (5 * doy + 2) \div 153
        d == doy - (153 * mp + 2) \div 5 + 1
        m == IF mp < 10 THEN mp + 3 ELSE mp - 9
        y == yoe + era * 400 + (IF m <= 2 THEN 1 ELSE 0)
    IN <<y, m, d>>

\* Proleptic Gregorian calendar: year, month, day -> day number.
DaysFromCivil(y0, m, d) ==
    LET y == IF m <= 2 THEN y0 - 1 ELSE y0
        era == y \div 400
        yoe == y - era * 400
        doy == (153 * (IF m > 2 THEN m - 3 ELSE m + 9) + 2) \div 5 + d - 1
        doe == yoe * 365 + yoe \div 4 - yoe \div 100 + doy
    IN era * 146097 + doe - 719468

IsLeap(y) == (y % 4 = 0) /\ ((y % 100 # 0) \/ (y % 400 = 0))

DaysIn(m, y) ==
    IF m = 2 THEN (IF IsLeap(y) THEN 29 ELSE 28)
    ELSE IF m \in {4, 6, 9, 11} THEN 30 ELSE 31

RECURSIVE Pow10(_)
Pow10(k) == IF k = 0 THEN 1 ELSE 10 * Pow10(k - 1)

RECURSIVE NumDigits(_)
NumDigits(n) == IF n < 10 THEN 1 ELSE 1 + NumDigits(n \div 10)

\* n >= 0 in decimal, zero-padded to at least `width` digits.
Digits(n, width) ==
    LET w == IF NumDigits(n) > width THEN NumDigits(n) ELSE width
    IN [k \in 1..w |-> (n \div Pow10(w - k)) % 10]

RECURSIVE ToInt(_)
ToInt(s) == IF s = <<>> THEN 0 ELSE 10 * ToInt(SubSeq(s, 1, Len(s) - 1)) + s[Len(s)]

\* time.Unix(sec, 0): the instant, in the process's Local location.
Unix(sec, local) == [day |-> sec \div 86400, sod |-> sec % 86400, loc |-> local]

\* t.Format("20060102"): the calendar date of t in t's own Location.
Format(t) ==
    LET c == CivilFromDays(LocalDay(t))
    IN Digits(c[1], 4) \o Digits(c[2], 2) \o Digits(c[3], 2)

\* time.ParseInLocation("20060102", key, l) with the error dropped: midnight
\* of the day in l, or the zero Time when key does not parse.
ParseInLocation(key, l) ==
    IF Len(key) # 8 THEN ZeroTime
    ELSE LET y == ToInt(SubSeq(key, 1, 4))
             m == ToInt(SubSeq(key, 5, 6))
             d == ToInt(SubSeq(key, 7, 8))
         IN IF m \notin 1..12 \/ d < 1 \/ d > DaysIn(m, y) THEN ZeroTime
            ELSE LET D == DaysFromCivil(y, m, d)
                 IN [day |-> D + ((0 - Offset(l)) \div 86400),
                     sod |-> (0 - Offset(l)) % 86400,
                     loc |-> l]

(* ------------------------------ strings -------------------------------- *)

\* a < b on Go strings (bytewise lexical order).
RECURSIVE StrLess(_, _)
StrLess(a, b) ==
    IF b = <<>> THEN FALSE
    ELSE IF a = <<>> THEN TRUE
    ELSE IF a[1] # b[1] THEN a[1] < b[1]
    ELSE StrLess(Tail(a), Tail(b))

RECURSIVE Insert(_, _)
Insert(s, k) ==
    IF s = <<>> THEN <<k>>
    ELSE IF StrLess(k, s[1]) THEN <<k>> \o s
    ELSE <<s[1]>> \o Insert(Tail(s), k)

RECURSIVE SortFrom(_, _)
SortFrom(done, rest) ==
    IF rest = <<>> THEN done ELSE SortFrom(Insert(done, rest[1]), Tail(rest))

\* The keys left in the order of first encounter.
Unsorted(s) == s

\* sort.Strings(keys): the keys in ascending order.
SortStrings(s) == SortFrom(<<>>, s)

(* ------------------------------ Weather -------------------------------- *)

\* Weather{}: the zero value.
ZeroWeather ==
    [Date |-> ZeroTime, Temperature |-> Float(0), TemperatureMin |-> Float(0),
     TemperatureMax |-> Float(0), Humidity |-> Float(0)]

\* Instants (Unix seconds): 2024-01-01T02:00:00Z, 2024-01-01T20:00:00Z and
\* 2024-01-03T12:00:00Z.  The first is still 2023-12-31 in EST, the second is
\* already 2024-01-02 in JST.
Instants == {1704074400, 1704139200, 1704283200}

\* The "main" object of a wire record.
Mains ==
    {[temp |-> 60, temp_min |-> 50, temp_max |-> 70, humidity |-> 40],
     [temp |-> 70, temp_min |-> 48, temp_max |-> 75, humidity |-> 60]}

WireRecords == [dt : Instants, main : Mains]

\* The Locations of the observations a caller builds itself.
CallerLocations == {"EST", "JST"}

\* A Weather a caller of the package builds itself.
Observations ==
    {[Date |-> Unix(t, l),
      Temperature |-> Float(m.temp),
      TemperatureMin |-> Float(m.temp_min),
      TemperatureMax |-> Float(m.temp_max),
      Humidity |-> Float(m.humidity)] : t \in Instants, l \in CallerLocations, m \in Mains}

SeqsUpTo(S, n) == UNION {[1..k -> S] : k \in 0..n}

(* ------------------------------ reducers ------------------------------- *)

RECURSIVE MaxLoop(_, _, _)
MaxLoop(max, fc, field) ==
    IF fc = <<>> THEN max
    ELSE MaxLoop(IF FLess(max, fc[1][field]) THEN fc[1][field] ELSE max,
                 Tail(fc), field)

RECURSIVE MinLoop(_, _, _)
MinLoop(min, fc, field) ==
    IF fc = <<>> THEN min
    ELSE MinLoop(IF FLess(fc[1][field], min) THEN fc[1][field] ELSE min,
                 Tail(fc), field)

RECURSIVE SumLoop(_, _, _)
SumLoop(acc, fc, field) ==
    IF fc = <<>> THEN acc ELSE SumLoop(FAdd(acc, fc[1][field]), Tail(fc), field)

\* The maximum taken over the Temperature field.
MaximumOfTemperature(fc) == MaxLoop(NegInf, fc, "Temperature")

\* The maximum started from 0 instead of -Inf.
MaximumFromZero(fc) == MaxLoop(Float(0), fc, "TemperatureMax")

MaximumTemperature(fc) == MaxLoop(NegInf, fc, "TemperatureMax")

\* The minimum taken over the Temperature field.
MinimumOfTemperature(fc) == MinLoop(PosInf, fc, "Temperature")

MinimumTemperature(fc) == MinLoop(PosInf, fc, "TemperatureMin")

\* The mean of the TemperatureMax field.
AverageOfTemperatureMax(fc) ==
    FDivInt(SumLoop(Float(0), fc, "TemperatureMax"), Len(fc))

AverageTemperature(fc) == FDivInt(SumLoop(Float(0), fc, "Temperature"), Len(fc))

AverageHumidity(fc) == FDivInt(SumLoop(Float(0), fc, "Humidity"), Len(fc))

(* ------------------------------ Daily ---------------------------------- *)

\* days[key] of a Go map: the zero value (nil) for a missing key.
MapGet(m, key) == IF key \in DOMAIN m THEN m[key] ELSE <<>>

\* loc taken from every observation (the last one wins).
LastLoc(l, w) == w.Date.loc

\* if loc == nil { loc = w.Date.Location() }
FirstLoc(l, w) == IF l = "nil" THEN w.Date.loc ELSE l

\* The key appended on every iteration.
AlwaysAppendKey(ks, m, key) == Append(ks, key)

\* if _, seen := days[key]; !seen { keys = append(keys, key) }
AppendKey(ks, m, key) == IF key \notin DOMAIN m THEN Append(ks, key) ELSE ks

\* The bucket overwritten by the observation.
Overwrite(m, key, w) ==
    [k \in DOMAIN m \cup {key} |-> IF k = key THEN <<w>> ELSE m[k]]

\* days[key] = append(days[key], w)
AddToBucket(m, key, w) ==
    [k \in DOMAIN m \cup {key} |-> IF k = key THEN Append(MapGet(m, key), w) ELSE m[k]]

\* The date parsed as by time.Parse: in UTC.
ParseUTC(key, l) == ParseInLocation(key, "UTC")

\* date, _ := time.ParseInLocation("20060102", key, loc)
BucketDate(key, l) == ParseInLocation(key, l)

\* The Weather appended for one key.
Summary(key, hourly, l) ==
    [Date |-> BucketDate(key, l),
     Humidity |-> AverageHumidity(hourly),
     Temperature |-> AverageTemperature(hourly),
     TemperatureMin |-> MinimumTemperature(hourly),
     TemperatureMax |-> MaximumTemperature(hourly)]

(* ------------------------------ state ---------------------------------- *)

NoStats == [max |-> NaN, min |-> NaN, temperature |-> NaN, humidity |-> NaN]

Init ==
    /\ pc = "idle"
    /\ f = <<>>
    /\ i = 1
    /\ days = <<>>
    /\ keys = <<>>
    /\ loc = "nil"
    /\ dailyForecast = <<>>
    /\ calls = 0
    /\ stats = NoStats
    /\ resp = <<>>
    /\ weathers = <<>>
    /\ cur = ZeroWeather
    /\ err = FALSE

DailyVars == <<f, i, days, keys, loc, dailyForecast, calls>>

\* Entry of Daily on the Forecast fc: the locals before the first loop.
EnterDaily(fc) ==
    /\ f' = fc
    /\ i' = 1
    /\ days' = <<>>
    /\ keys' = <<>>
    /\ loc' = "nil"
    /\ dailyForecast' = <<>>
    /\ calls' = calls + 1
    /\ pc' = "group"

(* ------------------------------ client --------------------------------- *)

\* The record GetCurrentWeather builds from the decoded response.
CurrentWeather(r, local) ==
    [Date |-> Unix(r.dt, local),
     Temperature |-> Float(r.main.temp),
     TemperatureMax |-> Float(r.main.temp_max),
     TemperatureMin |-> Float(r.main.temp_min),
     Humidity |-> Float(0)]

\* The record GetForecast appends for one list entry.
ForecastEntry(r, local) ==
    [Date |-> Unix(r.dt, local),
     Humidity |-> Float(r.main.humidity),
     Temperature |-> Float(r.main.temp),
     TemperatureMin |-> Float(r.main.temp_min),
     TemperatureMax |-> Float(r.main.temp_max)]

\* GetCurrentWeather: makeRequest fails, or decodes one record.
GetCurrentWeather ==
    /\ pc = "idle"
    /\ \/ /\ err' = TRUE
          /\ cur' = ZeroWeather
          /\ resp' = <<>>
          /\ pc' = "failed"
       \/ \E r \in WireRecords, local \in Locations :
            /\ err' = FALSE
            /\ resp' = <<r>>
            /\ cur' = CurrentWeather(r, local)
            /\ pc' = "current"
    /\ UNCHANGED <<DailyVars, stats, weathers>>

\* GetForecast: makeRequest fails, or decodes a list of records.
GetForecast ==
    /\ pc = "idle"
    /\ \/ /\ err' = TRUE
          /\ weathers' = <<>>
          /\ resp' = <<>>
          /\ pc' = "failed"
       \/ \E list \in SeqsUpTo(WireRecords, MaxLen), local \in Locations :
            /\ err' = FALSE
            /\ resp' = list
            /\ weathers' = [n \in 1..Len(list) |-> ForecastEntry(list[n], local)]
            /\ pc' = "fetched"
    /\ UNCHANGED <<DailyVars, stats, cur>>

\* ws.Daily() on the Forecast GetForecast returned.
DailyFetched ==
    /\ pc = "fetched"
    /\ EnterDaily(weathers)
    /\ UNCHANGED <<stats, resp, weathers, cur, err>>

\* Daily on a Forecast the caller built.
DailyCall ==
    /\ pc = "idle"
    /\ \E fc \in SeqsUpTo(Observations, MaxLen) : EnterDaily(fc)
    /\ UNCHANGED <<stats, resp, weathers, cur, err>>

\* One iteration of the first loop of Daily.
GroupStep ==
    /\ pc = "group"
    /\ i <= Len(f)
    /\ LET w == f[i]
           key == Format(w.Date)
       IN /\ loc' = FirstLoc(loc, w)
          /\ keys' = AppendKey(keys, days, key)
          /\ days' = AddToBucket(days, key, w)
    /\ i' = i + 1
    /\ UNCHANGED <<pc, f, dailyForecast, calls, stats, resp, weathers, cur, err>>

\* End of the first loop: sort.Strings(keys) and the allocation of the result.
SortKeys ==
    /\ pc = "group"
    /\ i > Len(f)
    /\ keys' = SortStrings(keys)
    /\ dailyForecast' = <<>>
    /\ i' = 1
    /\ pc' = "emit"
    /\ UNCHANGED <<f, days, loc, calls, stats, resp, weathers, cur, err>>

\* One iteration of the second loop of Daily.
EmitStep ==
    /\ pc = "emit"
    /\ i <= Len(keys)
    /\ dailyForecast' = Append(dailyForecast, Summary(keys[i], days[keys[i]], loc))
    /\ i' = i + 1
    /\ UNCHANGED <<pc, f, days, keys, loc, calls, stats, resp, weathers, cur, err>>

\* return dailyForecast
DailyReturn ==
    /\ pc = "emit"
    /\ i > Len(keys)
    /\ pc' = "returned"
    /\ UNCHANGED <<DailyVars, stats, resp, weathers, cur, err>>

\* Daily called on the Forecast the first call returned.
DailyAgain ==
    /\ pc = "returned"
    /\ calls = 1
    /\ EnterDaily(dailyForecast)
    /\ UNCHANGED <<stats, resp, weathers, cur, err>>

\* The four reducers called directly on a Forecast the caller built.
ReduceCall ==
    /\ pc = "idle"
    /\ \E fc \in SeqsUpTo(Observations, MaxLen) :
         /\ f' = fc
         /\ stats' = [max |-> MaximumTemperature(fc),
                      min |-> MinimumTemperature(fc),
                      temperature |-> AverageTemperature(fc),
                      humidity |-> AverageHumidity(fc)]
    /\ pc' = "reduced"
    /\ UNCHANGED <<i, days, keys, loc, dailyForecast, calls, resp, weathers, cur, err>>

Next ==
    \/ GetCurrentWeather
    \/ GetForecast
    \/ DailyFetched
    \/ DailyCall
    \/ GroupStep
    \/ SortKeys
    \/ EmitStep
    \/ DailyReturn
    \/ DailyAgain
    \/ ReduceCall

Spec == Init /\ [][Next]_vars

(* ------------------------------ properties ----------------------------- *)

\* The day-key of an observation: its date in its own Location.
DayKey(w) == Format(w.Date)

\* The observations of fc whose day-key is k, in input order, duplicates kept.
Bucket(fc, k) ==
    LET Same(w) == DayKey(w) = k IN SelectSeq(fc, Same)

KeySet(fc) == {DayKey(fc[n]) : n \in 1..Len(fc)}

\* The summaries appended so far are those of keys[1..Len(dailyForecast)].
InDaily == pc \in {"emit", "returned"}

Emitted == 1..Len(dailyForecast)

Values(fc, field) == {fc[n][field] : n \in 1..Len(fc)}

Greatest(S) == CHOOSE x \in S : \A y \in S : ~FLess(x, y)
Least(S) == CHOOSE x \in S : \A y \in S : ~FLess(y, x)

\* The sum of a field over fc as a fraction <<N, D>>, D the product of the
\* denominators.
RECURSIVE Total(_, _)
Total(fc, field) ==
    IF fc = <<>> THEN <<0, 1>>
    ELSE LET r == Total(SubSeq(fc, 1, Len(fc) - 1), field)
             x == fc[Len(fc)][field]
         IN <<r[1] * x.den + x.num * r[2], r[2] * x.den>>

\* v = (sum of field over fc) / Len(fc), fc non-empty and finite.
IsMean(v, fc, field) ==
    LET t == Total(fc, field)
    IN v.den > 0 /\ v.num * t[2] * Len(fc) = t[1] * v.den

\* The instant t cut back to 00:00:00 of its calendar day in its own Location.
StartOfDay(t) ==
    LET u == t.day * 86400 + t.sod - LocalSecond(t)
    IN [day |-> u \div 86400, sod |-> u % 86400, loc |-> t.loc]

UnixSeconds(t) == t.day * 86400 + t.sod

\* C1: the summaries Daily returns are in strictly ascending order of their
\* day-key, whatever the order of the input.
C1_SortedByDayKey ==
    InDaily =>
        \A a \in Emitted : \A b \in Emitted :
            a < b => StrLess(DayKey(dailyForecast[a]), DayKey(dailyForecast[b]))

\* Input dated day 3, day 1, day 2 and returned as day 1, day 2, day 3.
C1_Witness ==
    /\ pc = "returned"
    /\ calls = 1
    /\ Len(f) = 3
    /\ Len(dailyForecast) = 3
    /\ DayKey(f[1]) = DayKey(dailyForecast[3])
    /\ DayKey(f[2]) = DayKey(dailyForecast[1])
    /\ DayKey(f[3]) = DayKey(dailyForecast[2])

\* C2: Daily returns as many entries as the input has distinct day-keys; the
\* empty Forecast gives the empty Forecast.
C2_OneEntryPerDayKey ==
    pc = "returned" =>
        /\ Len(dailyForecast) = Cardinality(KeySet(f))
        /\ (f = <<>> => dailyForecast = <<>>)

\* Three observations on two calendar days.
C2_Witness ==
    /\ pc = "returned"
    /\ calls = 1
    /\ Len(f) = 3
    /\ Len(dailyForecast) = 2

\* C3: the day buckets partition the input: each bucket is non-empty and holds
\* exactly the observations of its day-key, by position, duplicates kept.
C3_BucketsPartition ==
    (InDaily /\ f # <<>>) =>
        /\ DOMAIN days = KeySet(f)
        /\ \A k \in DOMAIN days : days[k] # <<>> /\ days[k] = Bucket(f, k)
        /\ \A n \in 1..Len(f) :
             Cardinality({k \in DOMAIN days :
                 \E j \in 1..Len(days[k]) : days[k][j] = f[n]}) = 1

\* The same observation twice, with another day in between.
C3_Witness ==
    /\ pc = "returned"
    /\ calls = 1
    /\ Len(f) = 3
    /\ f[1] = f[3]
    /\ DayKey(f[2]) # DayKey(f[1])
    /\ Len(days[DayKey(f[1])]) = 2

\* C4: a summary's TemperatureMax is the maximum of the TemperatureMax fields
\* of the observations of its day, and its TemperatureMin the minimum of their
\* TemperatureMin fields.
C4_MaxMinOfBucket ==
    InDaily =>
        \A n \in Emitted :
            LET B == Bucket(f, DayKey(dailyForecast[n]))
            IN /\ B # <<>>
               /\ dailyForecast[n].TemperatureMax = Greatest(Values(B, "TemperatureMax"))
               /\ dailyForecast[n].TemperatureMin = Least(Values(B, "TemperatureMin"))

\* A day of several observations whose TemperatureMax differ and whose greatest
\* TemperatureMax is not their greatest Temperature.
C4_Witness ==
    /\ pc = "returned"
    /\ \E n \in Emitted :
         LET B == Bucket(f, DayKey(dailyForecast[n]))
         IN /\ Cardinality(Values(B, "TemperatureMax")) > 1
            /\ Cardinality(Values(B, "TemperatureMin")) > 1
            /\ Greatest(Values(B, "TemperatureMax")) # Greatest(Values(B, "Temperature"))

\* C5: a summary's Temperature is the sum of the Temperature fields of the
\* observations of its day divided by their number, and its Humidity likewise.
C5_MeansOfBucket ==
    InDaily =>
        \A n \in Emitted :
            LET B == Bucket(f, DayKey(dailyForecast[n]))
            IN /\ B # <<>>
               /\ IsMean(dailyForecast[n].Temperature, B, "Temperature")
               /\ IsMean(dailyForecast[n].Humidity, B, "Humidity")

\* A day of three observations whose mean temperature is no whole number.
C5_Witness ==
    /\ pc = "returned"
    /\ \E n \in Emitted :
         /\ Len(Bucket(f, DayKey(dailyForecast[n]))) = 3
         /\ dailyForecast[n].Temperature.den = 3
         /\ dailyForecast[n].Humidity.den = 3

\* C6: every summary's Date is midnight of its bucket's calendar day in the
\* Location of the first observation of the whole input.
C6_DateInFirstZone ==
    (InDaily /\ f # <<>>) =>
        \A n \in Emitted :
            /\ dailyForecast[n].Date.loc = f[1].Date.loc
            /\ LocalSecond(dailyForecast[n].Date) = 0
            /\ Format(dailyForecast[n].Date) = keys[n]
            /\ \A j \in 1..Len(days[keys[n]]) : DayKey(days[keys[n]][j]) = keys[n]

\* A bucket none of whose members is in the Location of f[1].
C6_Witness ==
    /\ pc = "returned"
    /\ calls = 1
    /\ \E n \in Emitted :
         \A j \in 1..Len(days[keys[n]]) :
             days[keys[n]][j].Date.loc # f[1].Date.loc

\* C7 as stated: every summary's Date is the start of its calendar day in the
\* Location of the first observation of that day.
C7_DateInZoneOfDay ==
    InDaily =>
        \A n \in Emitted :
            dailyForecast[n].Date = StartOfDay(days[keys[n]][1].Date)

\* C7 amended: every summary's Date is the start of its calendar day in the
\* Location of the first observation of the whole input; that is the start of
\* day of the day's first observation whenever that observation is in the
\* Location of the first observation of the input.
C7_DateInZoneOfInput ==
    InDaily =>
        \A n \in Emitted :
            LET first == days[keys[n]][1]
                date == dailyForecast[n].Date
            IN /\ date.loc = f[1].Date.loc
               /\ date = StartOfDay(date)
               /\ CivilFromDays(LocalDay(date)) = CivilFromDays(LocalDay(first.Date))
               /\ (first.Date.loc = f[1].Date.loc => date = StartOfDay(first.Date))

\* A day whose first observation is not in the Location of f[1].
C7_Witness ==
    /\ pc = "returned"
    /\ calls = 1
    /\ \E n \in Emitted : days[keys[n]][1].Date.loc # f[1].Date.loc

\* C8: Daily applied to a result of Daily returns that result.
C8_Idempotent ==
    (pc = "returned" /\ calls = 2) => dailyForecast = f

\* The second call has returned, on a first result of two days one of which
\* averaged observations that differ.
C8_Witness ==
    /\ pc = "returned"
    /\ calls = 2
    /\ Len(f) = 2
    /\ \E n \in 1..Len(f) :
         /\ f[n].TemperatureMin # f[n].Temperature
         /\ f[n].Temperature = Float(65)

\* C9: on the empty Forecast MaximumTemperature returns -Inf and
\* MinimumTemperature +Inf; on a non-empty Forecast of finite fields neither
\* returns an infinity.
C9_Sentinels ==
    pc = "reduced" =>
        /\ f = <<>> => (stats.max = NegInf /\ stats.min = PosInf)
        /\ (/\ f # <<>>
            /\ \A n \in 1..Len(f) :
                 IsFinite(f[n].TemperatureMax) /\ IsFinite(f[n].TemperatureMin))
           => (IsFinite(stats.max) /\ IsFinite(stats.min))

\* The reducers have been called on the empty Forecast.
C9_Witness ==
    /\ pc = "reduced"
    /\ f = <<>>
    /\ stats.max = NegInf
    /\ stats.min = PosInf

\* w carries the five wire fields of r.
MapsDirectly(w, r) ==
    /\ UnixSeconds(w.Date) = r.dt
    /\ w.Temperature = Float(r.main.temp)
    /\ w.TemperatureMin = Float(r.main.temp_min)
    /\ w.TemperatureMax = Float(r.main.temp_max)
    /\ w.Humidity = Float(r.main.humidity)

\* C10: every Weather built from a decoded response, by GetForecast and by
\* GetCurrentWeather, carries the five wire fields of its record.
C10_DirectMapping ==
    /\ pc = "current" => MapsDirectly(cur, resp[1])
    /\ pc = "fetched" =>
         /\ Len(weathers) = Len(resp)
         /\ \A n \in 1..Len(resp) : MapsDirectly(weathers[n], resp[n])

====
